---- MODULE Spec2Model ----
(***************************************************************************)
(* Identity reconciliation service: the Contact and Parent collections,    *)
(* the DSU union (unionSets) and the two request handlers                  *)
(* POST /add-contact and POST /identify: served one request at a time     *)
(* (Spec), and with their store accesses interleaved or cut short          *)
(* (SpecConc, SpecCrash).                                                  *)
(*                                                                         *)
(* Both collections are sequences in natural (insertion) order: findOne    *)
(* and find without a sort return documents in that order, and the order   *)
(* decides which Parent document a findOne returns when several match.     *)
(*                                                                         *)
(* Both schemas store the key as _id and declare `id` as its alias.  Two   *)
(* filters of the source name the alias instead of the stored field:       *)
(* Parent.deleteOne({ id: ... }) in unionSets and id: { $ne: ... } in      *)
(* /add-contact.  Mongoose rewrites an alias in a filter only when its     *)
(* translateAliases option is on, which the source never sets; the source  *)
(* itself fetches contacts one by one with findById "to avoid alias        *)
(* issues".  The option is a part of the state that Init leaves open and   *)
(* no request changes: FALSE is the library's default, TRUE reads the two  *)
(* filters as filters on _id.                                              *)
(***************************************************************************)
EXTENDS Integers, Sequences, FiniteSets, TLC

\* ---------------------------------------------------------------- bounds
\* Largest id a client supplies to /add-contact.
MaxId == 3
\* Largest number of Contact documents; creation is disabled beyond it.
MaxContacts == 3
\* Largest number of /identify requests that build a seed store.
MaxSeed == 3
\* Largest number of unionSets calls made on their own.
MaxCalls == 3

\* ---------------------------------------------------------------- values
\* An identifier that is absent from the request body (undefined / null).
\* A filter {email: undefined} is sent as {email: null}, which matches the
\* documents whose field is null or missing: equality on NoVal.
NoVal == "none"
Emails == {"x", "y"}
Phones == {"p"}
EmailVals == Emails \cup {NoVal}
PhoneVals == Phones \cup {NoVal}

\* linkedId as the form field it is: missing (!linkedId), blank
\* (linkedId.trim() === ""), or the digits of an id (parseInt(linkedId)).
NoLinkedId == 0
BlankLinkedId == 0 - 1
LinkedIdVals == {NoLinkedId, BlankLinkedId} \cup (1..MaxId)

\* Math.min() of no arguments.
Infinity == 1000000

\* No document: the null that findOne returns.
NoDoc == [id |-> 0, parId |-> 0, childIds |-> <<>>]

VARIABLES
    contacts,          \* Contact collection: <<[id, email, phoneNumber]>>
    parents,           \* Parent collection: <<[id, parId, childIds]>>
    translateAliases,  \* whether a filter's alias `id` is rewritten to _id
    last,              \* the last request served start to response
    procs,             \* the requests in flight: position and locals
    versions,          \* __v of each Parent document, by _id
    seed,              \* the collections before the requests in flight
    calls              \* the unionSets calls made on their own: <<rootA, rootB>>

vars == <<contacts, parents, translateAliases, last, procs, versions, seed, calls>>

\* ---------------------------------------------------------------- helpers
Range(s) == {s[i] : i \in 1..Len(s)}

Min2(a, b) == IF a <= b THEN a ELSE b

SetMin(S) == CHOOSE m \in S : \A n \in S : m <= n

SetMax(S) == CHOOSE m \in S : \A n \in S : m >= n

\* new Set(seq) spread back into an array: first occurrences, in order.
RECURSIVE Dedup(_)
Dedup(s) ==
    IF s = <<>> THEN <<>>
    ELSE LET front == Dedup(SubSeq(s, 1, Len(s) - 1))
             x == s[Len(s)]
         IN  IF x \in Range(front) THEN front ELSE Append(front, x)

\* findOne: the first of the matching documents, or null.
FirstOf(hits) == IF hits = <<>> THEN NoDoc ELSE hits[1]

\* Parent.findOne({ parId: r })
FindOneByParId(ps, r) ==
    LET Test(d) == d.parId = r IN FirstOf(SelectSeq(ps, Test))

\* Parent.findOne({ childIds: m })
FindOneByChild(ps, m) ==
    LET Test(d) == m \in Range(d.childIds) IN FirstOf(SelectSeq(ps, Test))

\* Parent.updateMany({ parId: oldRoot }, { parId: newRoot })
UpdateManyParId(ps, oldRoot, newRoot) ==
    [i \in 1..Len(ps) |->
        IF ps[i].parId = oldRoot THEN [ps[i] EXCEPT !.parId = newRoot] ELSE ps[i]]

\* doc.save() of a loaded Parent whose childIds was assigned: $set of
\* childIds on the document with that _id.
SaveChildIds(ps, docId, newChildIds) ==
    [i \in 1..Len(ps) |->
        IF ps[i].id = docId THEN [ps[i] EXCEPT !.childIds = newChildIds] ELSE ps[i]]

\* Parent.deleteOne({ id: docId }).  `id` is the schema's alias of _id, not
\* a stored field.  With alias translation (tr) the filter is {_id: docId}
\* and the document is removed; without it the filter names a field no
\* stored document has, matches nothing, and nothing is removed.
DeleteOneById(ps, tr, docId) ==
    IF tr
    THEN LET Keep(d) == d.id # docId IN SelectSeq(ps, Keep)
    ELSE ps

\* unionSets that saves the absorbed document's childIds over the surviving
\* document's instead of the union of the two.
unionSets_KeepsOld(ps, tr, rootA, rootB) ==
    LET parentA == FindOneByParId(ps, rootA)
        parentB == FindOneByParId(ps, rootB)
    IN  IF parentA = NoDoc \/ parentB = NoDoc THEN ps
        ELSE LET newRoot == Min2(rootA, rootB)
                 oldRoot == IF newRoot = rootA THEN rootB ELSE rootA
                 newParent == IF newRoot = rootA THEN parentA ELSE parentB
                 oldParent == IF newRoot = rootA THEN parentB ELSE parentA
                 ps1 == UpdateManyParId(ps, oldRoot, newRoot)
                 ps2 == SaveChildIds(ps1, newParent.id, oldParent.childIds)
             IN  DeleteOneById(ps2, tr, oldParent.id)

\* unionSets that keeps its first argument as the root instead of the
\* smaller of the two.
unionSets_IntoFirst(ps, tr, rootA, rootB) ==
    LET parentA == FindOneByParId(ps, rootA)
        parentB == FindOneByParId(ps, rootB)
    IN  IF parentA = NoDoc \/ parentB = NoDoc THEN ps
        ELSE LET ps1 == UpdateManyParId(ps, rootB, rootA)
                 merged == Dedup(parentA.childIds \o parentB.childIds)
                 ps2 == SaveChildIds(ps1, parentA.id, merged)
             IN  DeleteOneById(ps2, tr, parentB.id)

\* async function unionSets(rootA, rootB)
unionSets(ps, tr, rootA, rootB) ==
    LET parentA == FindOneByParId(ps, rootA)
        parentB == FindOneByParId(ps, rootB)
    IN  IF parentA = NoDoc \/ parentB = NoDoc THEN ps
        ELSE LET newRoot == Min2(rootA, rootB)
                 oldRoot == IF newRoot = rootA THEN rootB ELSE rootA
                 newParent == IF newRoot = rootA THEN parentA ELSE parentB
                 oldParent == IF newRoot = rootA THEN parentB ELSE parentA
                 ps1 == UpdateManyParId(ps, oldRoot, newRoot)
                 merged == Dedup(newParent.childIds \o oldParent.childIds)
                 ps2 == SaveChildIds(ps1, newParent.id, merged)
             IN  DeleteOneById(ps2, tr, oldParent.id)

\* ---------------------------------------------------------------- Contact
ContactIds(cs) == {cs[i].id : i \in 1..Len(cs)}

\* Contact.findById(cid): the sequence holding that document, or none.
FindById(cs, cid) ==
    LET Test(c) == c.id = cid IN SelectSeq(cs, Test)

\* The distinct parId values of the first Parent document holding each
\* of the ids mids, in order (the Set `roots` of /add-contact).
RECURSIVE RootsOfEach(_, _)
RootsOfEach(ps, mids) ==
    IF mids = <<>> THEN <<>>
    ELSE LET front == RootsOfEach(ps, SubSeq(mids, 1, Len(mids) - 1))
             parentDoc == FindOneByChild(ps, mids[Len(mids)])
         IN  IF parentDoc = NoDoc \/ parentDoc.parId \in Range(front)
             THEN front
             ELSE Append(front, parentDoc.parId)

\* for (const root of roots) if (root !== newRoot) await unionSets(newRoot, root)
RECURSIVE UnionWithEach(_, _, _, _)
UnionWithEach(ps, tr, newRoot, roots) ==
    IF roots = <<>> THEN ps
    ELSE LET root == roots[1]
             ps1 == IF root # newRoot THEN unionSets(ps, tr, newRoot, root) ELSE ps
         IN  UnionWithEach(ps1, tr, newRoot, SubSeq(roots, 2, Len(roots)))

\* The secondary branch of /add-contact: union with the linkedId's root.
UnionLinked(ps, tr, inp) ==
    IF inp.linkPrecedence = "secondary" /\ inp.linkedId \notin {NoLinkedId, BlankLinkedId}
    THEN LET immediateParent == FindOneByChild(ps, inp.linkedId)
         IN  IF immediateParent # NoDoc /\ immediateParent.parId # inp.id
             THEN unionSets(ps, tr, immediateParent.parId, inp.id)
             ELSE ps
    ELSE ps

\* /add-contact whose newContact.save() does not reject an _id in use.
addContact_NoDuplicateCheck(cs, ps, tr, inp) ==
    IF inp.linkPrecedence = "secondary" /\ inp.linkedId \in {NoLinkedId, BlankLinkedId}
    THEN [contacts |-> cs, parents |-> ps, status |-> "linkedIdRequired"]
    ELSE LET newContact == [id |-> inp.id, email |-> inp.email,
                            phoneNumber |-> inp.phoneNumber]
             cs1 == Append(cs, newContact)
             ps1 == IF \E i \in 1..Len(ps) : ps[i].id = inp.id THEN ps
                    ELSE Append(ps, [id |-> inp.id, parId |-> inp.id,
                                     childIds |-> <<inp.id>>])
             Match(c) == /\ (c.phoneNumber = inp.phoneNumber
                               \/ c.email = inp.email)
                         /\ (tr => c.id # inp.id)
             matchingContacts == SelectSeq(cs1, Match)
             matchingIds == [i \in 1..Len(matchingContacts) |->
                                matchingContacts[i].id]
             roots == RootsOfEach(ps1, matchingIds)
             ps2 == UnionLinked(ps1, tr, inp)
             ps3 == UnionWithEach(ps2, tr, inp.id, roots)
         IN  [contacts |-> cs1, parents |-> ps3, status |-> "ok"]

\* app.post("/add-contact"): the collections and the response after the
\* request inp = [id, email, phoneNumber, linkPrecedence, linkedId].
addContact(cs, ps, tr, inp) ==
    IF inp.linkPrecedence = "secondary" /\ inp.linkedId \in {NoLinkedId, BlankLinkedId}
    THEN [contacts |-> cs, parents |-> ps, status |-> "linkedIdRequired"]
    ELSE IF inp.id \in ContactIds(cs)
    THEN \* newContact.save() rejects the duplicate _id
         [contacts |-> cs, parents |-> ps, status |-> "error"]
    ELSE LET newContact == [id |-> inp.id, email |-> inp.email,
                            phoneNumber |-> inp.phoneNumber]
             cs1 == Append(cs, newContact)
         IN  IF \E i \in 1..Len(ps) : ps[i].id = inp.id
             THEN \* newParent.save() rejects the duplicate _id
                  [contacts |-> cs1, parents |-> ps, status |-> "error"]
             ELSE LET ps1 == Append(ps, [id |-> inp.id, parId |-> inp.id,
                                         childIds |-> <<inp.id>>])
                      \* { $or: [{phoneNumber}, {email}], id: {$ne: id} }: the
                      \* alias `id` excludes the new document only when it is
                      \* translated; untranslated, no document has the field
                      \* and $ne holds of all of them.
                      Match(c) == /\ (c.phoneNumber = inp.phoneNumber
                                        \/ c.email = inp.email)
                                  /\ (tr => c.id # inp.id)
                      matchingContacts == SelectSeq(cs1, Match)
                      matchingIds == [i \in 1..Len(matchingContacts) |->
                                         matchingContacts[i].id]
                      roots == RootsOfEach(ps1, matchingIds)
                      ps2 == UnionLinked(ps1, tr, inp)
                      ps3 == UnionWithEach(ps2, tr, inp.id, roots)
                  IN  [contacts |-> cs1, parents |-> ps3, status |-> "ok"]

\* ---------------------------------------------------------------- identify
\* The JSON body of a response; 0 stands for a field the body does not have.
NoResp == [primaryContatctId |-> 0, primaryContactId |-> 0, emails |-> <<>>,
           phoneNumbers |-> <<>>, secondaryContactIds |-> <<>>]

\* Parent.find({ childIds: { $in: matchedIds } }) mapped to parId, as a Set.
RootsOfMatched(ps, matchedIds) ==
    LET Hit(d) == Range(d.childIds) \cap matchedIds # {}
        parentRoots == SelectSeq(ps, Hit)
    IN  Dedup([i \in 1..Len(parentRoots) |-> parentRoots[i].parId])

\* for (const r of rootsArr) if (r !== baseRoot) await unionSets(baseRoot, r)
RECURSIVE UnionAll(_, _, _, _)
UnionAll(ps, tr, baseRoot, rootsArr) ==
    IF rootsArr = <<>> THEN ps
    ELSE LET r == rootsArr[1]
             ps1 == IF r # baseRoot THEN unionSets(ps, tr, baseRoot, r) ELSE ps
         IN  UnionAll(ps1, tr, Min2(baseRoot, r), SubSeq(rootsArr, 2, Len(rootsArr)))

\* The values of field f ("email" / "phoneNumber") of the contacts named by
\* idList, each id fetched once, absent values skipped, first occurrences.
RECURSIVE Collect(_, _, _)
Collect(cs, idList, f) ==
    IF idList = <<>> THEN <<>>
    ELSE LET front == Collect(cs, SubSeq(idList, 1, Len(idList) - 1), f)
             doc == FindById(cs, idList[Len(idList)])
         IN  IF doc = <<>> \/ doc[1][f] = NoVal \/ doc[1][f] \in Range(front)
             THEN front
             ELSE Append(front, doc[1][f])

\* Mutant of NewId: the next id taken from the number of contacts.
NewId_ByCount(cs) == Len(cs) + 1

\* const newId = maxDoc ? Number(maxDoc._id) + 1 : 1
NewId(cs) == IF cs = <<>> THEN 1 ELSE SetMax(ContactIds(cs)) + 1

\* The no-match branch of /identify: a new standalone contact and its set.
createIdentity(cs, ps, email, phoneNumber) ==
    LET newId == NewId(cs)
        cs1 == Append(cs, [id |-> newId, email |-> email,
                           phoneNumber |-> phoneNumber])
    IN  IF \E i \in 1..Len(ps) : ps[i].id = newId
        THEN \* parent.save() rejects the duplicate _id
             [contacts |-> cs1, parents |-> ps, status |-> "error", resp |-> NoResp]
        ELSE [contacts |-> cs1,
              parents |-> Append(ps, [id |-> newId, parId |-> newId,
                                      childIds |-> <<newId>>]),
              status |-> "ok",
              resp |-> [primaryContatctId |-> 0,
                        primaryContactId |-> newId,
                        emails |-> IF email # NoVal THEN <<email>> ELSE <<>>,
                        phoneNumbers |-> IF phoneNumber # NoVal
                                         THEN <<phoneNumber>> ELSE <<>>,
                        secondaryContactIds |-> <<>>]]

\* Mutant of resolveMatched: the final Parent document is read before the
\* unions instead of after them.
resolveMatched_StaleParent(cs, ps, tr, matchingContacts) ==
    LET matchedIds == ContactIds(matchingContacts)
        rootsArr == RootsOfMatched(ps, matchedIds)
        baseRoot == IF rootsArr = <<>> THEN Infinity ELSE SetMin(Range(rootsArr))
        ps1 == UnionAll(ps, tr, baseRoot, rootsArr)
        finalParent == FindOneByParId(ps, baseRoot)
        idList == <<baseRoot>> \o finalParent.childIds
        NotBase(cid) == cid # baseRoot
    IN  [contacts |-> cs, parents |-> ps1, status |-> "ok",
         resp |-> [primaryContatctId |-> baseRoot,
                   primaryContactId |-> baseRoot,
                   emails |-> Collect(cs, Dedup(idList), "email"),
                   phoneNumbers |-> Collect(cs, Dedup(idList), "phoneNumber"),
                   secondaryContactIds |-> SelectSeq(idList, NotBase)]]

\* The match branch of /identify: union the matched contacts' roots, then
\* summarise the set of the least root.
resolveMatched(cs, ps, tr, matchingContacts) ==
    LET matchedIds == ContactIds(matchingContacts)
        rootsArr == RootsOfMatched(ps, matchedIds)
        baseRoot == IF rootsArr = <<>> THEN Infinity ELSE SetMin(Range(rootsArr))
        ps1 == UnionAll(ps, tr, baseRoot, rootsArr)
        finalParent == FindOneByParId(ps1, baseRoot)
        idList == <<baseRoot>> \o finalParent.childIds
        NotBase(cid) == cid # baseRoot
    IN  [contacts |-> cs, parents |-> ps1, status |-> "ok",
         resp |-> [primaryContatctId |-> baseRoot,
                   primaryContactId |-> baseRoot,
                   emails |-> Collect(cs, Dedup(idList), "email"),
                   phoneNumbers |-> Collect(cs, Dedup(idList), "phoneNumber"),
                   secondaryContactIds |-> SelectSeq(idList, NotBase)]]

\* /identify without the check that one of email and phoneNumber is given.
identify_NoValidation(cs, ps, tr, email, phoneNumber) ==
    LET Match(c) == \/ (email # NoVal /\ c.email = email)
                    \/ (phoneNumber # NoVal /\ c.phoneNumber = phoneNumber)
        matchingContacts == SelectSeq(cs, Match)
    IN  IF matchingContacts = <<>>
        THEN createIdentity(cs, ps, email, phoneNumber)
        ELSE resolveMatched(cs, ps, tr, matchingContacts)

\* app.post("/identify"): the collections and the response after the
\* request {email, phoneNumber}.
identify(cs, ps, tr, email, phoneNumber) ==
    IF email = NoVal /\ phoneNumber = NoVal
    THEN [contacts |-> cs, parents |-> ps, status |-> "badRequest", resp |-> NoResp]
    ELSE LET Match(c) == \/ (email # NoVal /\ c.email = email)
                         \/ (phoneNumber # NoVal /\ c.phoneNumber = phoneNumber)
             matchingContacts == SelectSeq(cs, Match)
         IN  IF matchingContacts = <<>>
             THEN createIdentity(cs, ps, email, phoneNumber)
             ELSE resolveMatched(cs, ps, tr, matchingContacts)

\* The ids of the contacts a /identify request {email, phoneNumber} matches.
MatchedIds(cs, email, phoneNumber) ==
    {cs[i].id : i \in {j \in 1..Len(cs) :
        \/ (email # NoVal /\ cs[j].email = email)
        \/ (phoneNumber # NoVal /\ cs[j].phoneNumber = phoneNumber)}}

\* ---------------------------------------------------------------- machine
NoLast == [op |-> "none", status |-> "none", id |-> 0, email |-> NoVal,
           phoneNumber |-> NoVal, linkPrecedence |-> NoVal, linkedId |-> NoLinkedId,
           resp |-> NoResp]

\* Request bodies of /add-contact.  A primary's linkedId is stored and never
\* read, so one value stands for all of them.
AddInputs ==
    [id : 1..MaxId, email : EmailVals, phoneNumber : PhoneVals,
     linkPrecedence : {"primary"}, linkedId : {NoLinkedId}]
    \cup
    [id : 1..MaxId, email : EmailVals, phoneNumber : PhoneVals,
     linkPrecedence : {"secondary"}, linkedId : LinkedIdVals]

\* The requests that can be in flight together.
ProcIds == {1, 2}

\* The _id values a Parent document can have.
DocIds == 1..(MaxId + MaxContacts + MaxSeed)

\* A request body not yet received.
NoInp == [id |-> 0, email |-> NoVal, phoneNumber |-> NoVal,
          linkPrecedence |-> NoVal, linkedId |-> NoLinkedId]

\* No request: the position and the locals of a handler that is not running.
IdleProc == [pc |-> "idle", op |-> "none", inp |-> NoInp, matchingIds |-> <<>>,
             roots |-> <<>>, todo |-> <<>>, baseRoot |-> 0,
             parentA |-> NoDoc, parentB |-> NoDoc, vA |-> 0, vB |-> 0,
             created |-> FALSE, wrote |-> FALSE, status |-> "none"]

\* Requests served one at a time never hold a stale document, so Spec
\* keeps no request in flight and leaves __v out.
Init ==
    /\ contacts = <<>>
    /\ parents = <<>>
    /\ translateAliases \in BOOLEAN
    /\ last = NoLast
    /\ procs = [p \in ProcIds |-> IdleProc]
    /\ versions = [i \in DocIds |-> 0]
    /\ seed = [contacts |-> <<>>, parents |-> <<>>]
    /\ calls = <<>>

\* One POST /add-contact request, start to response.
AddContact(inp) ==
    /\ Len(contacts) < MaxContacts
    /\ LET r == addContact(contacts, parents, translateAliases, inp)
       IN  /\ contacts' = r.contacts
           /\ parents' = r.parents
           /\ last' = [NoLast EXCEPT !.op = "add-contact", !.status = r.status,
                          !.id = inp.id, !.linkPrecedence = inp.linkPrecedence,
                          !.linkedId = inp.linkedId]
    /\ UNCHANGED <<translateAliases, procs, versions, seed, calls>>

\* One POST /identify request, start to response.
Identify(email, phoneNumber) ==
    /\ LET r == identify(contacts, parents, translateAliases, email, phoneNumber)
       IN  /\ Len(r.contacts) <= MaxContacts
           /\ contacts' = r.contacts
           /\ parents' = r.parents
           /\ last' = [NoLast EXCEPT !.op = "identify", !.status = r.status,
                          !.email = email, !.phoneNumber = phoneNumber,
                          !.resp = r.resp]
    /\ UNCHANGED <<translateAliases, procs, versions, seed, calls>>

Next ==
    \/ \E inp \in AddInputs : AddContact(inp)
    \/ \E e \in EmailVals, p \in PhoneVals : Identify(e, p)

Spec == Init /\ [][Next]_vars

TypeOK ==
    /\ \A i \in 1..Len(contacts) : contacts[i].id \in 1..(MaxId + MaxContacts)
    /\ \A i \in 1..Len(parents) : parents[i].parId \in 1..(MaxId + MaxContacts)

\* Only /add-contact requests: the states reached by ingestion alone.
NextIngest == \E inp \in AddInputs : AddContact(inp)

SpecIngest == Init /\ [][NextIngest]_vars

\* ------------------------------------------------- requests, step by step
\* The handlers are async functions: each `await` hands control back to the
\* event loop, so the store accesses of two requests in flight interleave.
\* Below, one action is one awaited store access of one request.

\* The stores left by at most MaxSeed /identify requests served one after
\* the other on the empty collections.
RECURSIVE SeedStores(_, _)
SeedStores(tr, n) ==
    IF n = 0 THEN {[contacts |-> <<>>, parents |-> <<>>]}
    ELSE LET prev == SeedStores(tr, n - 1)
             After(s, e, p) ==
                 LET r == identify(s.contacts, s.parents, tr, e, p)
                 IN  [contacts |-> r.contacts, parents |-> r.parents]
         IN  prev \cup {After(s, e, p) : s \in prev, e \in EmailVals, p \in PhoneVals}

\* A request whose next step is a store access.
Running(p) == procs[p].pc \notin {"idle", "done", "stopped"}

\* The handler returns (or its catch answers): the locals are gone.
Finish(pr, status) ==
    [IdleProc EXCEPT !.pc = "done", !.op = pr.op, !.inp = pr.inp,
                     !.created = pr.created, !.wrote = pr.wrote,
                     !.status = status]

\* The calls unionSets(base, r) a loop over roots makes: one for each r
\* other than base.
RECURSIVE PairsWith(_, _)
PairsWith(base, roots) ==
    IF roots = <<>> THEN <<>>
    ELSE (IF roots[1] # base THEN << <<base, roots[1]>> >> ELSE <<>>)
             \o PairsWith(base, Tail(roots))

\* Control after a unionSets call returns, or before the first one: the
\* next call, else the code after the loop.
Continue(pr, todo) ==
    IF todo # <<>>
    THEN [pr EXCEPT !.pc = "findA", !.todo = todo,
                    !.parentA = NoDoc, !.parentB = NoDoc, !.vA = 0, !.vB = 0]
    ELSE IF pr.op = "identify"
    THEN [pr EXCEPT !.pc = "finalParent", !.todo = <<>>,
                    !.parentA = NoDoc, !.parentB = NoDoc, !.vA = 0, !.vB = 0]
    ELSE Finish(pr, "ok")

\* POST /identify arrives; the body is validated before any store access.
StartIdentify(p, email, phoneNumber) ==
    /\ procs[p].pc = "idle"
    /\ LET pr == [IdleProc EXCEPT !.op = "identify", !.inp.email = email,
                                  !.inp.phoneNumber = phoneNumber]
       IN  procs' = [procs EXCEPT ![p] =
                        IF email = NoVal /\ phoneNumber = NoVal
                        THEN Finish(pr, "badRequest")
                        ELSE [pr EXCEPT !.pc = "find"]]
    /\ UNCHANGED <<contacts, parents, translateAliases, last,
                   versions, seed, calls>>

\* const matchingContacts = await Contact.find({ $or: orFilters })
IdFind(p) ==
    /\ procs[p].pc = "find"
    /\ LET pr == procs[p]
           Match(c) == \/ (pr.inp.email # NoVal /\ c.email = pr.inp.email)
                       \/ (pr.inp.phoneNumber # NoVal
                             /\ c.phoneNumber = pr.inp.phoneNumber)
           matchingContacts == SelectSeq(contacts, Match)
           matchingIds == [i \in 1..Len(matchingContacts) |-> matchingContacts[i].id]
       IN  procs' = [procs EXCEPT ![p] =
                        IF matchingContacts = <<>>
                        THEN [pr EXCEPT !.pc = "maxDoc", !.created = TRUE]
                        ELSE [pr EXCEPT !.pc = "parentRoots",
                                        !.matchingIds = matchingIds]]
    /\ UNCHANGED <<contacts, parents, translateAliases, last,
                   versions, seed, calls>>

\* const maxDoc = await Contact.findOne({}, { _id: 1 }).sort({ _id: -1 })
IdMaxDoc(p) ==
    /\ procs[p].pc = "maxDoc"
    /\ procs' = [procs EXCEPT ![p].pc = "saveContact",
                              ![p].inp.id = NewId(contacts)]
    /\ UNCHANGED <<contacts, parents, translateAliases, last,
                   versions, seed, calls>>

\* await created.save() / await newContact.save(): an insert, which the
\* store rejects when the _id is in use.
SaveContact(p) ==
    /\ procs[p].pc = "saveContact"
    /\ LET pr == procs[p]
       IN  IF pr.inp.id \in ContactIds(contacts)
           THEN /\ procs' = [procs EXCEPT ![p] = Finish(pr, "error")]
                /\ UNCHANGED contacts
           ELSE /\ contacts' = Append(contacts,
                        [id |-> pr.inp.id, email |-> pr.inp.email,
                         phoneNumber |-> pr.inp.phoneNumber])
                /\ procs' = [procs EXCEPT ![p].pc = "saveParent",
                                          ![p].wrote = TRUE]
    /\ UNCHANGED <<parents, translateAliases, last, versions, seed, calls>>

\* await parent.save() / await newParent.save(): the singleton set.
SaveParent(p) ==
    /\ procs[p].pc = "saveParent"
    /\ LET pr == procs[p]
       IN  IF \E i \in 1..Len(parents) : parents[i].id = pr.inp.id
           THEN /\ procs' = [procs EXCEPT ![p] = Finish(pr, "error")]
                /\ UNCHANGED <<parents, versions>>
           ELSE /\ parents' = Append(parents,
                        [id |-> pr.inp.id, parId |-> pr.inp.id,
                         childIds |-> <<pr.inp.id>>])
                /\ versions' = [versions EXCEPT ![pr.inp.id] = 0]
                /\ LET pr1 == [pr EXCEPT !.wrote = TRUE]
                   IN  procs' = [procs EXCEPT ![p] =
                                    IF pr.op = "identify" THEN Finish(pr1, "ok")
                                    ELSE [pr1 EXCEPT !.pc = "addFind"]]
    /\ UNCHANGED <<contacts, translateAliases, last, seed, calls>>

\* const parentRoots = await Parent.find({ childIds: { $in: matchedIds } })
IdParentRoots(p) ==
    /\ procs[p].pc = "parentRoots"
    /\ LET pr == procs[p]
           rootsArr == RootsOfMatched(parents, Range(pr.matchingIds))
           baseRoot == IF rootsArr = <<>> THEN Infinity ELSE SetMin(Range(rootsArr))
       IN  procs' = [procs EXCEPT ![p] =
                        Continue([pr EXCEPT !.matchingIds = <<>>, !.baseRoot = baseRoot],
                                 PairsWith(baseRoot, rootsArr))]
    /\ UNCHANGED <<contacts, parents, translateAliases, last,
                   versions, seed, calls>>

\* const finalParent = await Parent.findOne({ parId: baseRoot }) and the
\* per-id Contact.findById reads that follow; then the 200 response.
IdFinalParent(p) ==
    /\ procs[p].pc = "finalParent"
    /\ procs' = [procs EXCEPT ![p] = Finish(procs[p], "ok")]
    /\ UNCHANGED <<contacts, parents, translateAliases, last,
                   versions, seed, calls>>

\* POST /add-contact arrives; the body is validated before any store access.
StartAddContact(p, inp) ==
    /\ procs[p].pc = "idle"
    /\ LET pr == [IdleProc EXCEPT !.op = "add-contact", !.inp = inp]
       IN  procs' = [procs EXCEPT ![p] =
                        IF inp.linkPrecedence = "secondary"
                              /\ inp.linkedId \in {NoLinkedId, BlankLinkedId}
                        THEN Finish(pr, "linkedIdRequired")
                        ELSE [pr EXCEPT !.pc = "saveContact"]]
    /\ UNCHANGED <<contacts, parents, translateAliases, last,
                   versions, seed, calls>>

\* const matchingContacts = await Contact.find({ $or: [...], id: { $ne } })
AddFind(p) ==
    /\ procs[p].pc = "addFind"
    /\ LET pr == procs[p]
           Match(c) == /\ (c.phoneNumber = pr.inp.phoneNumber
                             \/ c.email = pr.inp.email)
                       /\ (translateAliases => c.id # pr.inp.id)
           matchingContacts == SelectSeq(contacts, Match)
       IN  procs' = [procs EXCEPT ![p].pc = "addRoots",
                        ![p].matchingIds =
                            [i \in 1..Len(matchingContacts) |-> matchingContacts[i].id]]
    /\ UNCHANGED <<contacts, parents, translateAliases, last,
                   versions, seed, calls>>

\* for (const mid of matchingIds) await Parent.findOne({ childIds: mid }):
\* the reads of the loop, with no other request's write between them.
AddRoots(p) ==
    /\ procs[p].pc = "addRoots"
    /\ LET pr == procs[p]
           roots == RootsOfEach(parents, pr.matchingIds)
           pr1 == [pr EXCEPT !.matchingIds = <<>>, !.roots = roots]
       IN  procs' = [procs EXCEPT ![p] =
                        IF pr.inp.linkPrecedence = "secondary"
                        THEN [pr1 EXCEPT !.pc = "addLinked"]
                        ELSE Continue([pr1 EXCEPT !.roots = <<>>],
                                      PairsWith(pr.inp.id, roots))]
    /\ UNCHANGED <<contacts, parents, translateAliases, last,
                   versions, seed, calls>>

\* const immediateParent = await Parent.findOne({ childIds: parseInt(linkedId) })
AddLinked(p) ==
    /\ procs[p].pc = "addLinked"
    /\ LET pr == procs[p]
           immediateParent == FindOneByChild(parents, pr.inp.linkedId)
           linked == IF immediateParent # NoDoc /\ immediateParent.parId # pr.inp.id
                     THEN << <<immediateParent.parId, pr.inp.id>> >>
                     ELSE <<>>
       IN  procs' = [procs EXCEPT ![p] =
                        Continue([pr EXCEPT !.roots = <<>>],
                                 linked \o PairsWith(pr.inp.id, pr.roots))]
    /\ UNCHANGED <<contacts, parents, translateAliases, last,
                   versions, seed, calls>>

\* unionSets: const parentA = await Parent.findOne({ parId: rootA })
UFindA(p) ==
    /\ procs[p].pc = "findA"
    /\ LET parentA == FindOneByParId(parents, procs[p].todo[1][1])
       IN  procs' = [procs EXCEPT ![p].pc = "findB", ![p].parentA = parentA,
                        ![p].vA = IF parentA = NoDoc THEN 0 ELSE versions[parentA.id]]
    /\ UNCHANGED <<contacts, parents, translateAliases, last,
                   versions, seed, calls>>

\* unionSets: const parentB = await Parent.findOne({ parId: rootB });
\* if (!parentA || !parentB) return
UFindB(p) ==
    /\ procs[p].pc = "findB"
    /\ LET pr == procs[p]
           parentB == FindOneByParId(parents, pr.todo[1][2])
       IN  procs' = [procs EXCEPT ![p] =
                        IF pr.parentA = NoDoc \/ parentB = NoDoc
                        THEN Continue(pr, Tail(pr.todo))
                        ELSE [pr EXCEPT !.pc = "updateMany", !.parentB = parentB,
                                        !.vB = versions[parentB.id]]]
    /\ UNCHANGED <<contacts, parents, translateAliases, last,
                   versions, seed, calls>>

\* The locals of a unionSets call that has loaded both documents.
UnionLocals(pr) ==
    LET rootA == pr.todo[1][1]
        rootB == pr.todo[1][2]
        newRoot == Min2(rootA, rootB)
    IN  [newRoot |-> newRoot,
         oldRoot |-> IF newRoot = rootA THEN rootB ELSE rootA,
         newParent |-> IF newRoot = rootA THEN pr.parentA ELSE pr.parentB,
         oldParent |-> IF newRoot = rootA THEN pr.parentB ELSE pr.parentA,
         newVersion |-> IF newRoot = rootA THEN pr.vA ELSE pr.vB]

\* unionSets: await Parent.updateMany({ parId: oldRoot }, { parId: newRoot })
UUpdateMany(p) ==
    /\ procs[p].pc = "updateMany"
    /\ LET u == UnionLocals(procs[p])
       IN  parents' = UpdateManyParId(parents, u.oldRoot, u.newRoot)
    /\ procs' = [procs EXCEPT ![p].pc = "save", ![p].wrote = TRUE]
    /\ UNCHANGED <<contacts, translateAliases, last, versions, seed, calls>>

\* unionSets: newParent.childIds = [...]; await newParent.save().  Nothing
\* is sent when the array equals the loaded one.  Otherwise the update is
\* { _id, __v: loaded } -> { $set: childIds, $inc: __v } (an array that is
\* set is versioned); when no document matches, save() throws
\* (VersionError), nothing catches it before the handler's catch.
USave(p) ==
    /\ procs[p].pc = "save"
    /\ LET pr == procs[p]
           u == UnionLocals(pr)
           merged == Dedup(u.newParent.childIds \o u.oldParent.childIds)
       IN  IF merged = u.newParent.childIds
           THEN /\ procs' = [procs EXCEPT ![p].pc = "deleteOne"]
                /\ UNCHANGED <<parents, versions>>
           ELSE IF /\ \E i \in 1..Len(parents) : parents[i].id = u.newParent.id
                   /\ versions[u.newParent.id] = u.newVersion
           THEN /\ parents' = SaveChildIds(parents, u.newParent.id, merged)
                /\ versions' = [versions EXCEPT ![u.newParent.id] = u.newVersion + 1]
                /\ procs' = [procs EXCEPT ![p].pc = "deleteOne",
                                          ![p].wrote = TRUE]
           ELSE /\ procs' = [procs EXCEPT ![p] = Finish(pr, "error")]
                /\ UNCHANGED <<parents, versions>>
    /\ UNCHANGED <<contacts, translateAliases, last, seed, calls>>

\* unionSets: await Parent.deleteOne({ id: oldParent.id })
UDeleteOne(p) ==
    /\ procs[p].pc = "deleteOne"
    /\ LET pr == procs[p]
           u == UnionLocals(pr)
       IN  /\ parents' = DeleteOneById(parents, translateAliases, u.oldParent.id)
           /\ procs' = [procs EXCEPT ![p] =
                            Continue([pr EXCEPT !.wrote = TRUE], Tail(pr.todo))]
    /\ UNCHANGED <<contacts, translateAliases, last, versions, seed, calls>>

\* A store access of a request that has written fails (connection lost,
\* write rejected): the awaited call throws, the handler's catch answers,
\* and the writes still to come are never made.
Crash(p) ==
    /\ Running(p)
    /\ procs[p].wrote
    /\ procs' = [procs EXCEPT ![p] = [Finish(procs[p], "error") EXCEPT !.pc = "stopped"]]
    /\ UNCHANGED <<contacts, parents, translateAliases, last,
                   versions, seed, calls>>

\* The steps of unionSets.
UnionStep(p) ==
    \/ UFindA(p)
    \/ UFindB(p)
    \/ UUpdateMany(p)
    \/ USave(p)
    \/ UDeleteOne(p)

\* The steps of POST /identify.
IdentifyStep(p) ==
    \/ IdFind(p)
    \/ IdMaxDoc(p)
    \/ IdParentRoots(p)
    \/ IdFinalParent(p)

\* The steps of POST /add-contact.
AddContactStep(p) ==
    \/ AddFind(p)
    \/ AddRoots(p)
    \/ AddLinked(p)

\* The collections hold a seed store; no request has arrived.
InitSeeded ==
    /\ translateAliases \in BOOLEAN
    /\ seed \in SeedStores(translateAliases, MaxSeed)
    /\ contacts = seed.contacts
    /\ parents = seed.parents
    /\ last = NoLast
    /\ procs = [p \in ProcIds |-> IdleProc]
    /\ versions = [i \in DocIds |-> 0]
    /\ calls = <<>>

\* Two /identify requests in flight at once.
NextConc ==
    \E p \in ProcIds :
        \/ \E e \in EmailVals, ph \in PhoneVals : StartIdentify(p, e, ph)
        \/ IdentifyStep(p)
        \/ SaveContact(p)
        \/ SaveParent(p)
        \/ UnionStep(p)

SpecConc == InitSeeded /\ [][NextConc]_vars

\* The next request, a POST /identify that names a stored identifier,
\* served start to response once the /add-contact has returned or stopped.
LaterIdentify(email, phoneNumber) ==
    /\ procs[1].pc \in {"done", "stopped"}
    /\ last.op = "none"
    /\ MatchedIds(contacts, email, phoneNumber) # {}
    /\ LET r == identify(contacts, parents, translateAliases, email, phoneNumber)
       IN  /\ contacts' = r.contacts
           /\ parents' = r.parents
           /\ last' = [NoLast EXCEPT !.op = "identify", !.status = r.status,
                          !.email = email, !.phoneNumber = phoneNumber,
                          !.resp = r.resp]
    /\ UNCHANGED <<translateAliases, procs, versions, seed, calls>>

\* One /add-contact request whose store accesses may fail, then one
\* /identify request.
NextCrash ==
    \/ \E inp \in AddInputs : StartAddContact(1, inp)
    \/ SaveContact(1)
    \/ SaveParent(1)
    \/ AddContactStep(1)
    \/ UnionStep(1)
    \/ Crash(1)
    \/ \E e \in EmailVals, ph \in PhoneVals : LaterIdentify(e, ph)

SpecCrash == InitSeeded /\ [][NextCrash]_vars

\* ------------------------------------------------------- unionSets alone
\* One call unionSets(rootA, rootB), start to return.  The function has no
\* throw of its own and, called alone, no save of it is rejected: the
\* promise resolves whether or not the two documents were found.
Union(rootA, rootB) ==
    /\ Len(calls) < MaxCalls
    /\ parents' = unionSets(parents, translateAliases, rootA, rootB)
    /\ calls' = Append(calls, <<rootA, rootB>>)
    /\ last' = [NoLast EXCEPT !.op = "unionSets", !.status = "returned"]
    /\ UNCHANGED <<contacts, translateAliases, procs, versions, seed>>

\* unionSets called on any two different ids, in any order, on a seed store.
NextUnion == \E rootA, rootB \in 1..MaxId : rootA # rootB /\ Union(rootA, rootB)

SpecUnion == InitSeeded /\ [][NextUnion]_vars

\* ---------------------------------------------------------------- claims
\* The Parent documents (by position) whose childIds hold the id.
RowsOf(ps, id) == {i \in 1..Len(ps) : id \in Range(ps[i].childIds)}

\* Two ids are members of one Parent document.
SameRow(ps, a, b) == RowsOf(ps, a) \cap RowsOf(ps, b) # {}

\* The Contact document with the given id (the id is in use).
ContactOf(cs, id) == FindById(cs, id)[1]

\* Two contacts share a non-null email or a non-null phone number.
SharesIdentifier(c, d) ==
    \/ (c.email # NoVal /\ c.email = d.email)
    \/ (c.phoneNumber # NoVal /\ c.phoneNumber = d.phoneNumber)

\* C1 (partition invariant): after any sequence of completed /add-contact
\* and /identify requests, every contact id is in the childIds of exactly
\* one Parent document.
C1_Partition ==
    \A id \in ContactIds(contacts) : Cardinality(RowsOf(parents, id)) = 1

\* C2: after a successful /add-contact the new contact is in one Parent
\* document with every other contact that shares its email or its phone
\* number and, when it is secondary, with the contact its linkedId names.
C2_IngestMergesAllMatches ==
    (last.op = "add-contact" /\ last.status = "ok") =>
        LET new == ContactOf(contacts, last.id)
        IN  /\ \A i \in 1..Len(contacts) :
                    (contacts[i].id # new.id /\ SharesIdentifier(new, contacts[i]))
                        => SameRow(parents, new.id, contacts[i].id)
            /\ (last.linkPrecedence = "secondary"
                    /\ last.linkedId \in ContactIds(contacts))
                        => SameRow(parents, new.id, last.linkedId)

\* find: the root of the set that holds a member id.
RootOf(ps, id) == FindOneByChild(ps, id).parId

\* The members of the group whose root is r: the childIds of every Parent
\* document that carries parId = r.
GroupOf(ps, r) ==
    UNION {Range(ps[i].childIds) : i \in {j \in 1..Len(ps) : ps[j].parId = r}}

NoDuplicates(s) == \A i, j \in 1..Len(s) : s[i] = s[j] => i = j

\* The last request was a /identify answered 200 from the match branch (the
\* only response that carries the legacy field primaryContatctId).
IdentifiedMatch ==
    last.op = "identify" /\ last.status = "ok" /\ last.resp.primaryContatctId # 0

\* The last request was a /identify answered 200 from the no-match branch.
IdentifiedNew ==
    last.op = "identify" /\ last.status = "ok" /\ last.resp.primaryContatctId = 0

\* The three records of the transitivity scenario, in any order, under any
\* ids: A(email = x), B(email = x, phone = p), C(phone = p).
IsABC(cs, x, p) ==
    /\ Len(cs) = 3
    /\ {<<cs[i].email, cs[i].phoneNumber>> : i \in 1..3}
          = {<<x, NoVal>>, <<x, p>>, <<NoVal, p>>}

\* C3 (transitivity): once A(email = x), B(email = x, phone = p) and
\* C(phone = p) are ingested by /add-contact, in any order and under any
\* ids, resolve(email = x) followed by resolve(phone = p) report one
\* primaryContactId, and each response's primary and secondaries are
\* exactly {A, B, C}.
C3_Transitivity ==
    \A x \in Emails, p \in Phones :
        IsABC(contacts, x, p) =>
            LET r1 == identify(contacts, parents, translateAliases, x, NoVal)
                r2 == identify(r1.contacts, r1.parents, translateAliases, NoVal, p)
                All(r) == {r.resp.primaryContactId}
                              \cup Range(r.resp.secondaryContactIds)
            IN  /\ r1.resp.primaryContactId = r2.resp.primaryContactId
                /\ All(r1) = ContactIds(contacts)
                /\ All(r2) = ContactIds(contacts)

\* C4 (canonical root): in every state left by a completed request, each
\* Parent document's parId is the least of its childIds, and so one of them.
C4_CanonicalRoot ==
    \A i \in 1..Len(parents) :
        /\ parents[i].parId \in Range(parents[i].childIds)
        /\ \A m \in Range(parents[i].childIds) : parents[i].parId <= m

\* C5: a /identify that matches some contact leaves all matched contacts in
\* one Parent document and returns as primaryContactId the least of the
\* roots the matched contacts had before the request.
C5_ResolveMergesMatched ==
    [][ LET m == MatchedIds(contacts, last'.email, last'.phoneNumber)
        IN  (last'.op = "identify" /\ m # {}) =>
                /\ last'.status = "ok"
                /\ \E i \in 1..Len(parents') : m \subseteq Range(parents'[i].childIds)
                /\ last'.resp.primaryContactId
                       = SetMin({RootOf(parents, id) : id \in m}) ]_vars

\* C6 (aggregation completeness): a /identify that matches some contact
\* returns exactly the non-null emails and phone numbers of all members of
\* the final group, each once, and as secondaryContactIds exactly the
\* members other than the primary, each once.
C6_AggregationComplete ==
    IdentifiedMatch =>
        LET group == GroupOf(parents, last.resp.primaryContactId)
            members == {c \in Range(contacts) : c.id \in group}
        IN  /\ Range(last.resp.emails) = {c.email : c \in members} \ {NoVal}
            /\ Range(last.resp.phoneNumbers)
                   = {c.phoneNumber : c \in members} \ {NoVal}
            /\ Range(last.resp.secondaryContactIds)
                   = group \ {last.resp.primaryContactId}
            /\ NoDuplicates(last.resp.emails)
            /\ NoDuplicates(last.resp.phoneNumbers)
            /\ NoDuplicates(last.resp.secondaryContactIds)

\* The new contact n of a request with the given linkPrecedence and linkedId
\* is linked to the existing contact d: a shared non-null email, a shared
\* non-null phone number, or the linkedId hint.
LinksTo(n, linkPrecedence, linkedId, d) ==
    \/ SharesIdentifier(n, d)
    \/ (linkPrecedence = "secondary" /\ linkedId = d.id)

\* C7: /add-contact puts the new contact in one Parent document with an
\* existing contact c only when the request links it to c or to a contact
\* of the group c was in; identifiers that are absent link nothing.
C7_IngestMergesOnlyLinked ==
    [][ (last'.op = "add-contact" /\ last'.status = "ok") =>
            \A c \in ContactIds(contacts) :
                SameRow(parents', last'.id, c) =>
                    \E i \in 1..Len(contacts) :
                        /\ LinksTo(ContactOf(contacts', last'.id),
                                   last'.linkPrecedence, last'.linkedId, contacts[i])
                        /\ (contacts[i].id = c
                              \/ SameRow(parents, contacts[i].id, c)
                              \/ RootOf(parents, contacts[i].id) = RootOf(parents, c))
      ]_vars

\* The four fields of a response that C8 names.
Summary(resp) ==
    <<resp.primaryContactId, resp.emails, resp.phoneNumbers, resp.secondaryContactIds>>

\* C8 (idempotence of resolve): after a /identify answered 200, the same
\* request again, nothing in between, returns the same primary id, emails,
\* phoneNumbers and secondaryContactIds and changes neither collection;
\* this includes a first request that created a new identity.
C8_ResolveIdempotent ==
    (last.op = "identify" /\ last.status = "ok") =>
        LET r2 == identify(contacts, parents, translateAliases,
                           last.email, last.phoneNumber)
        IN  /\ r2.status = "ok"
            /\ Summary(r2.resp) = Summary(last.resp)
            /\ r2.contacts = contacts
            /\ r2.parents = parents

\* A /identify merged several sets and answered with secondaries: the case
\* in which a repeat could differ.
C8_Witness ==
    /\ IdentifiedMatch
    /\ Len(last.resp.secondaryContactIds) >= 2
    /\ Len(last.resp.emails) >= 2

\* C9 (new-identity creation): a /identify that matches nothing appends one
\* contact whose id exceeds every existing id and one singleton Parent
\* document for it, changes nothing else, and returns that id as primary
\* with no secondaries.
C9_NewIdentity ==
    [][ (/\ last'.op = "identify"
         /\ last'.status # "badRequest"
         /\ MatchedIds(contacts, last'.email, last'.phoneNumber) = {}) =>
            LET created == contacts'[Len(contacts')]
            IN  /\ last'.status = "ok"
                /\ Len(contacts') = Len(contacts) + 1
                /\ SubSeq(contacts', 1, Len(contacts)) = contacts
                /\ \A id \in ContactIds(contacts) : id < created.id
                /\ created.email = last'.email
                /\ created.phoneNumber = last'.phoneNumber
                /\ parents' = Append(parents, [id |-> created.id, parId |-> created.id,
                                               childIds |-> <<created.id>>])
                /\ last'.resp.primaryContactId = created.id
                /\ last'.resp.secondaryContactIds = <<>> ]_vars

\* A /identify created an identity beside contacts whose ids a client chose.
C9_Witness ==
    /\ IdentifiedNew
    /\ Len(contacts) >= 2
    /\ last.resp.primaryContactId = contacts[Len(contacts)].id
    /\ \E i \in 1..Len(contacts) : contacts[i].id > Len(contacts) - 1
                                     /\ i < Len(contacts)

\* C10 (ingest validation): a secondary /add-contact whose linkedId is
\* missing, or names no existing contact, is rejected and changes neither
\* collection.
C10_SecondaryNeedsExistingLink ==
    [][ (/\ last'.op = "add-contact"
         /\ last'.linkPrecedence = "secondary"
         /\ last'.linkedId \notin ContactIds(contacts)) =>
            /\ last'.status # "ok"
            /\ contacts' = contacts
            /\ parents' = parents ]_vars

\* C11 (groups never split): across every completed /add-contact and
\* /identify, two ids that are members of one Parent document are still
\* members of one Parent document afterwards, and an id that is a member of
\* some Parent document is still a member of one.
C11_GroupsNeverSplit ==
    [][ /\ \A a, b \in ContactIds(contacts) :
                SameRow(parents, a, b) => SameRow(parents', a, b)
        /\ \A a \in ContactIds(contacts) :
                RowsOf(parents, a) # {} => RowsOf(parents', a) # {} ]_vars

\* A request has merged two sets and a later request has merged a third
\* set into the result.
C11_Witness ==
    /\ Len(contacts) = 3
    /\ last.status = "ok"
    /\ \E i \in 1..Len(parents) : Len(parents[i].childIds) = 3
    /\ \E i \in 1..Len(contacts) : contacts[i].id # last.id
                                     /\ ~SharesIdentifier(contacts[i], contacts[Len(contacts)])

\* C12 (resolve validation): a /identify whose body has neither an email
\* nor a phoneNumber is answered with an error (400) and changes neither
\* collection.
C12_ResolveNeedsIdentifier ==
    [][ (/\ last'.op = "identify"
         /\ last'.email = NoVal
         /\ last'.phoneNumber = NoVal) =>
            /\ last'.status = "badRequest"
            /\ contacts' = contacts
            /\ parents' = parents ]_vars

\* A /identify with an empty body was rejected while the store held
\* contacts, one of them with neither identifier.
C12_Witness ==
    /\ last.op = "identify"
    /\ last.status = "badRequest"
    /\ \E i \in 1..Len(contacts) :
            contacts[i].email = NoVal /\ contacts[i].phoneNumber = NoVal

\* The Parent collection as a partition: the root and the members of each
\* document.
Partition(ps) == {<<ps[i].parId, Range(ps[i].childIds)>> : i \in 1..Len(ps)}

\* The roots, in the seed store, of the contacts that the /identify request
\* of p matches there.
TouchedRoots(p) ==
    Range(RootsOfMatched(seed.parents,
              MatchedIds(seed.contacts, procs[p].inp.email, procs[p].inp.phoneNumber)))

\* The store after the /identify request of p and then that of q are served
\* one after the other on the seed store.
SerialIdentify(p, q) ==
    LET r1 == identify(seed.contacts, seed.parents, translateAliases,
                       procs[p].inp.email, procs[p].inp.phoneNumber)
    IN  identify(r1.contacts, r1.parents, translateAliases,
                 procs[q].inp.email, procs[q].inp.phoneNumber)

\* C13 (concurrent unions): when two /identify requests whose matches share
\* a root have both returned, whatever the interleaving of their store
\* accesses, neither has failed, no id has left its set, and the Parent
\* collection is the partition that serving the two one after the other, in
\* one of the two orders, produces.
C13_ConcurrentUnionsSafe ==
    (/\ \A p \in ProcIds : procs[p].pc = "done" /\ procs[p].op = "identify"
     /\ TouchedRoots(1) \cap TouchedRoots(2) # {}) =>
        /\ \A p \in ProcIds : procs[p].status = "ok"
        /\ \A a, b \in ContactIds(seed.contacts) :
                SameRow(seed.parents, a, b) => SameRow(parents, a, b)
        /\ \E o \in {<<1, 2>>, <<2, 1>>} :
                LET r == SerialIdentify(o[1], o[2])
                IN  /\ Partition(parents) = Partition(r.parents)
                    /\ contacts = r.contacts

\* Some Parent document carries the root r.
LiveRoot(ps, r) == \E i \in 1..Len(ps) : ps[i].parId = r

\* C14 (merge policy): a call unionSets(a, b) on two different roots that
\* both have a Parent document leaves exactly one document with root
\* min(a, b), whose childIds are the members of both sets, each once;
\* leaves no document with root max(a, b); and leaves every document of
\* another root as it was.
C14_MergePolicy ==
    [][ (calls' # calls) =>
            LET a == calls'[Len(calls')][1]
                b == calls'[Len(calls')][2]
                lo == Min2(a, b)
                hi == IF lo = a THEN b ELSE a
                Other(d) == d.parId \notin {a, b}
            IN  (LiveRoot(parents, a) /\ LiveRoot(parents, b)) =>
                    /\ Cardinality({i \in 1..Len(parents') : parents'[i].parId = lo}) = 1
                    /\ \A i \in 1..Len(parents') :
                            parents'[i].parId = lo =>
                                /\ Range(parents'[i].childIds)
                                       = GroupOf(parents, a) \cup GroupOf(parents, b)
                                /\ NoDuplicates(parents'[i].childIds)
                    /\ ~LiveRoot(parents', hi)
                    /\ SelectSeq(parents', Other) = SelectSeq(parents, Other) ]_vars

\* The seed store holds three sets of one member each.
ThreeLiveRoots ==
    /\ Len(seed.parents) = 3
    /\ \A i \in 1..3 : seed.parents[i].childIds = <<seed.parents[i].parId>>
    /\ Cardinality({seed.parents[i].parId : i \in 1..3}) = 3

\* The pairs of seed roots that the unionSets calls so far have named, in
\* either argument order.  Two different pairs connect three roots.
PairsCalled ==
    LET roots == {seed.parents[i].parId : i \in 1..Len(seed.parents)}
    IN  {{calls[i][1], calls[i][2]} : i \in {j \in 1..Len(calls) :
            calls[j][1] \in roots /\ calls[j][2] \in roots}}

\* C15 (merge determinism): starting from three live roots, once the
\* unionSets calls made, in whatever call order and argument order, connect
\* the three (a call may name a root that an earlier call absorbed), the
\* Parent collection is one document whose root is the least of the three
\* and whose childIds are the three original members.
C15_MergeDeterminism ==
    (ThreeLiveRoots /\ Cardinality(PairsCalled) >= 2) =>
        LET roots == {seed.parents[i].parId : i \in 1..3}
        IN  /\ Len(parents) = 1
            /\ parents[1].parId = SetMin(roots)
            /\ Range(parents[1].childIds) = roots

\* Every contact id is a member of exactly one Parent document.
PartitionOK(cs, ps) == \A id \in ContactIds(cs) : Cardinality(RowsOf(ps, id)) = 1

\* C16 (mid-sequence failure): when a /add-contact that began on a valid
\* partition stops after one of its store writes, every contact id is
\* still in exactly one Parent document; and after the next /identify that
\* names an identifier of the contact being added and answers 200, all the
\* contacts it matches are in one Parent document.
C16_MidSequenceFailureSafe ==
    (procs[1].pc = "stopped" /\ PartitionOK(seed.contacts, seed.parents)) =>
        /\ last.op = "none" => PartitionOK(contacts, parents)
        /\ (/\ last.op = "identify"
            /\ last.status = "ok"
            /\ \/ (last.email # NoVal /\ last.email = procs[1].inp.email)
               \/ (last.phoneNumber # NoVal
                     /\ last.phoneNumber = procs[1].inp.phoneNumber)) =>
                \E i \in 1..Len(parents) :
                    MatchedIds(contacts, last.email, last.phoneNumber)
                        \subseteq Range(parents[i].childIds)

\* C17 (union idempotent and commutative): in every store, unionSets(a, b)
\* and unionSets(b, a) leave the same Parent collection (same root, same
\* childIds); and a call that names a pair an earlier call has named, in
\* either order, changes no Parent document.
C17_UnionIdempotentCommutative ==
    [][ /\ \A a, b \in 1..MaxId :
                /\ unionSets(parents, translateAliases, a, b)
                       = unionSets(parents, translateAliases, b, a)
                /\ unionSets(parents', translateAliases, a, b)
                       = unionSets(parents', translateAliases, b, a)
        /\ (/\ calls' # calls
            /\ \E j \in 1..Len(calls) :
                    {calls[j][1], calls[j][2]}
                        = {calls'[Len(calls')][1], calls'[Len(calls')][2]})
                => parents' = parents ]_vars

\* A first call merged two sets, and the same pair was then named again
\* with the arguments swapped.
C17_Witness ==
    /\ Len(calls) >= 2
    /\ calls[2] = <<calls[1][2], calls[1][1]>>
    /\ \E i \in 1..Len(parents) : Len(parents[i].childIds) >= 2
    /\ \A i \in 1..Len(seed.parents) : Len(seed.parents[i].childIds) = 1

\* No Parent document has the id as its _id, its root or a member.
NoRowFor(ps, id) ==
    \A i \in 1..Len(ps) :
        ps[i].id # id /\ ps[i].parId # id /\ id \notin Range(ps[i].childIds)

\* C18: a unionSets call that names an id for which no Parent document
\* exists fails with an error, and leaves the Parent collection unchanged.
C18_UnionOfMissingRowFails ==
    [][ (/\ calls' # calls
         /\ \/ NoRowFor(parents, calls'[Len(calls')][1])
            \/ NoRowFor(parents, calls'[Len(calls')][2])) =>
            /\ last'.status = "error"
            /\ parents' = parents ]_vars

\* C19 (concurrent creation): when two /identify requests in flight together
\* have both found no match and both returned, whatever the interleaving of
\* their store accesses, both answered 200, the ids they allocated differ
\* from each other and from every id stored before, and each added exactly
\* one contact and one singleton Parent document.
C19_ConcurrentCreatesDistinct ==
    (\A p \in ProcIds : procs[p].pc = "done" /\ procs[p].created) =>
        /\ \A p \in ProcIds : procs[p].status = "ok"
        /\ procs[1].inp.id # procs[2].inp.id
        /\ \A p \in ProcIds : procs[p].inp.id \notin ContactIds(seed.contacts)
        /\ Len(contacts) = Len(seed.contacts) + 2
        /\ \A p \in ProcIds :
                /\ Cardinality({i \in 1..Len(contacts) :
                                    contacts[i].id = procs[p].inp.id}) = 1
                /\ Cardinality({i \in 1..Len(parents) :
                                    parents[i].id = procs[p].inp.id}) = 1
                /\ \A i \in 1..Len(parents) :
                        parents[i].id = procs[p].inp.id =>
                            /\ parents[i].parId = procs[p].inp.id
                            /\ parents[i].childIds = <<procs[p].inp.id>>

\* C20: a /add-contact whose id is the id of a stored contact is rejected
\* and changes neither collection: no second contact or Parent document
\* for the id, no union.
C20_DuplicateIdRejected ==
    [][ (last'.op = "add-contact" /\ last'.id \in ContactIds(contacts)) =>
            /\ last'.status # "ok"
            /\ contacts' = contacts
            /\ parents' = parents ]_vars

\* A /add-contact that passed validation was rejected for its id, which a
\* contact of a set of several members already had.
C20_Witness ==
    /\ last.op = "add-contact"
    /\ last.status = "error"
    /\ last.id \in ContactIds(contacts)
    /\ \E i \in 1..Len(parents) :
            Len(parents[i].childIds) >= 2 /\ last.id \in Range(parents[i].childIds)
    /\ Len(contacts) = MaxContacts - 1

====
